---- MODULE Spec2Model ----
(***************************************************************************)
(* A model of backend/openrouter.py: query_model (one request to one       *)
(* model: payload construction, one transport call under a timeout,        *)
(* response validation, catch-all conversion to None) and                  *)
(* query_models_parallel (asyncio.gather fan-out, zip into a dict).        *)
(*                                                                         *)
(* Python values are tagged records so that values of different Python     *)
(* types are comparable: None, str, list and dict.  A Python dict is a     *)
(* TLA+ function whose domain is the set of keys that are present.         *)
(***************************************************************************)
EXTENDS Integers, Sequences, FiniteSets, TLC

\* ------------------------------------------------------------ bounds
\* longest target list handed to query_models_parallel
MaxTargets == 3
\* longest message sequence handed to the payload construction
MaxMsgs == 2
\* longest document, in bytes, handed to create_message_with_pdf
MaxBytes == 3

\* ------------------------------------------------------------ Python values
PyNone == [t |-> "None"]
PyStr(s) == [t |-> "str", s |-> s]
PyList(l) == [t |-> "list", l |-> l]
PyDict(d) == [t |-> "dict", d |-> d]

\* a variable or field that holds nothing yet
Unset == [t |-> "unset"]

\* the dict with no keys
EmptyDict == [k \in {} |-> PyNone]

\* Python truthiness, as `not x` / `if x` evaluate it
Truthy(v) ==
    CASE v.t = "None" -> FALSE
      [] v.t = "str"  -> v.s # ""
      [] v.t = "list" -> Len(v.l) > 0
      [] v.t = "dict" -> DOMAIN v.d # {}

\* d.get(key, default) on a dict d
Get(d, key, default) == IF key \in DOMAIN d THEN d[key] ELSE default

\* how an f-string renders a value: str(v)
Format(v) ==
    CASE v.t = "str"  -> v.s
      [] v.t = "None" -> "None"
      [] OTHER        -> "<object>"

\* an evaluation either yields a value or raises
Ok(v) == [ok |-> TRUE, val |-> v]
Raise(e) == [ok |-> FALSE, exc |-> [t |-> "exception", name |-> e]]

\* ------------------------------------------------------------ payload construction
\* the text part appended when the message text is truthy
TextPart(content) == PyDict([type |-> PyStr("text"), text |-> content])

\* the attachment sent as a file part
MediaPartAsFile(attachment) ==
    LET mime_type == Get(attachment.d, "type", PyStr("application/pdf"))
        base64_data == Get(attachment.d, "base64", PyStr(""))
        data_uri == "data:" \o Format(mime_type) \o ";base64," \o Format(base64_data)
    IN  PyDict([type |-> PyStr("file"),
                file |-> PyDict([file_data |-> PyStr(data_uri)])])

\* the part built for one attachment (a dict): data URI under image_url
MediaPart(attachment) ==
    LET mime_type == Get(attachment.d, "type", PyStr("application/pdf"))
        base64_data == Get(attachment.d, "base64", PyStr(""))
        data_uri == "data:" \o Format(mime_type) \o ";base64," \o Format(base64_data)
    IN  PyDict([type |-> PyStr("image_url"),
                image_url |-> PyDict([url |-> PyStr(data_uri)])])

\* the text part appended even when the text is empty
ContentPartsAlwaysText(msg, attachments) ==
    IF "content" \notin DOMAIN msg THEN Raise("KeyError")
    ELSE IF attachments.t # "list" THEN Raise("AttributeError")
    ELSE IF \E k \in 1..Len(attachments.l) : attachments.l[k].t # "dict"
    THEN Raise("AttributeError")
    ELSE LET media == [k \in 1..Len(attachments.l) |-> MediaPart(attachments.l[k])]
         IN  Ok(PyList(<<TextPart(msg["content"])>> \o media))

\* the multimodal branch: content_parts of a message whose attachments are truthy.
\* msg["content"] raises KeyError when the key is absent; attachment.get raises
\* AttributeError when an element is not a dict (the elements of a str or of a
\* dict are strings, so a truthy non-list raises there too).
ContentParts(msg, attachments) ==
    IF "content" \notin DOMAIN msg THEN Raise("KeyError")
    ELSE IF attachments.t # "list" THEN Raise("AttributeError")
    ELSE IF \E k \in 1..Len(attachments.l) : attachments.l[k].t # "dict"
    THEN Raise("AttributeError")
    ELSE LET text == IF Truthy(msg["content"]) THEN <<TextPart(msg["content"])>> ELSE <<>>
             media == [k \in 1..Len(attachments.l) |-> MediaPart(attachments.l[k])]
         IN  Ok(PyList(text \o media))

\* the content wrapped in a content-part list whether or not there are attachments
ProcessMessageAlwaysParts(msg) ==
    IF "role" \notin DOMAIN msg THEN Raise("KeyError")
    ELSE LET parts == ContentParts(msg, Get(msg, "attachments", PyList(<<>>)))
         IN  IF "content" \notin DOMAIN msg THEN Raise("KeyError")
             ELSE IF ~Truthy(Get(msg, "attachments", PyList(<<>>)))
             THEN Ok([role |-> msg["role"],
                      content |-> PyList(<<TextPart(msg["content"])>>)])
             ELSE IF parts.ok THEN Ok([role |-> msg["role"], content |-> parts.val])
             ELSE parts

\* one iteration of the loop over messages: new_msg for msg
ProcessMessage(msg) ==
    IF "role" \notin DOMAIN msg THEN Raise("KeyError")
    ELSE LET attachments == Get(msg, "attachments", PyList(<<>>))
         IN  IF ~Truthy(attachments)
             THEN IF "content" \notin DOMAIN msg THEN Raise("KeyError")
                  ELSE Ok([role |-> msg["role"], content |-> msg["content"]])
             ELSE LET parts == ContentParts(msg, attachments)
                  IN  IF parts.ok
                      THEN Ok([role |-> msg["role"], content |-> parts.val])
                      ELSE parts

\* the loop: processed_messages, or the first exception raised
ProcessMessages(msgs) ==
    LET each == [k \in 1..Len(msgs) |-> ProcessMessage(msgs[k])]
        bad == {k \in 1..Len(msgs) : ~each[k].ok}
    IN  IF bad # {}
        THEN each[CHOOSE k \in bad : \A j \in bad : k <= j]
        ELSE Ok([k \in 1..Len(msgs) |-> each[k].val])

\* payload = {"model": model, "messages": processed_messages}
BuildPayload(model, msgs) ==
    LET processed == ProcessMessages(msgs)
    IN  IF processed.ok
        THEN Ok([model |-> model, messages |-> processed.val])
        ELSE processed

\* ------------------------------------------------------------ pdf_processor.py
\* a str is a sequence of one-character strings where the code looks inside it;
\* Join is the str itself
RECURSIVE Join(_)
Join(cs) == IF cs = <<>> THEN "" ELSE Head(cs) \o Join(Tail(cs))

\* the characters str.strip() removes
Whitespace == {" ", "\t", "\n", "\r", "\f"}

RECURSIVE LStrip(_)
LStrip(cs) == IF cs # <<>> /\ Head(cs) \in Whitespace THEN LStrip(Tail(cs)) ELSE cs

RECURSIVE RStrip(_)
RStrip(cs) ==
    IF cs # <<>> /\ cs[Len(cs)] \in Whitespace THEN RStrip(SubSeq(cs, 1, Len(cs) - 1)) ELSE cs

\* user_message.strip()
Strip(cs) == RStrip(LStrip(cs))

\* the base64 alphabet of base64.b64encode
B64Alphabet ==
    << "A", "B", "C", "D", "E", "F", "G", "H", "I", "J", "K", "L", "M",
       "N", "O", "P", "Q", "R", "S", "T", "U", "V", "W", "X", "Y", "Z",
       "a", "b", "c", "d", "e", "f", "g", "h", "i", "j", "k", "l", "m",
       "n", "o", "p", "q", "r", "s", "t", "u", "v", "w", "x", "y", "z",
       "0", "1", "2", "3", "4", "5", "6", "7", "8", "9", "+", "/" >>

\* the four characters encoding the g-th group of up to three bytes
B64Group(bytes, g) ==
    LET n == Len(bytes)
        p == 3 * g
        b1 == bytes[p + 1]
        b2 == IF p + 2 <= n THEN bytes[p + 2] ELSE 0
        b3 == IF p + 3 <= n THEN bytes[p + 3] ELSE 0
    IN  << B64Alphabet[(b1 \div 4) + 1],
           B64Alphabet[((b1 % 4) * 16 + (b2 \div 16)) + 1],
           IF p + 2 <= n THEN B64Alphabet[((b2 % 16) * 4 + (b3 \div 64)) + 1] ELSE "=",
           IF p + 3 <= n THEN B64Alphabet[(b3 % 64) + 1] ELSE "=" >>

\* only the whole groups of three bytes encoded
B64EncodeWholeGroups(bytes) ==
    [k \in 1..(4 * (Len(bytes) \div 3)) |-> B64Group(bytes, (k - 1) \div 4)[((k - 1) % 4) + 1]]

\* line 17: base64.b64encode(pdf_bytes).decode('utf-8'), as characters
B64Encode(bytes) ==
    [k \in 1..(4 * ((Len(bytes) + 2) \div 3)) |->
        B64Group(bytes, (k - 1) \div 4)[((k - 1) % 4) + 1]]

\* line 40
DefaultPrompt == "Please analyze this PDF document."

\* the text trimmed before it is used
CreateMessageWithPdfTrimmed(user_message, pdf_bytes, filename) ==
    LET text == IF Strip(user_message) = <<>> THEN DefaultPrompt
                ELSE Join(Strip(user_message))
    IN  << [role |-> PyStr("user"),
            content |-> PyList(<<
                PyDict([type |-> PyStr("text"), text |-> PyStr(text)]),
                PyDict([type |-> PyStr("image_url"),
                        image_url |-> PyDict([url |->
                            PyStr("data:application/pdf;base64," \o Join(B64Encode(pdf_bytes)))])])
            >>)] >>

\* lines 20-57: create_message_with_pdf
CreateMessageWithPdf(user_message, pdf_bytes, filename) ==
    LET pdf_base64 == Join(B64Encode(pdf_bytes))
        text == IF Strip(user_message) = <<>> THEN DefaultPrompt ELSE Join(user_message)
    IN  << [role |-> PyStr("user"),
            content |-> PyList(<<
                PyDict([type |-> PyStr("text"), text |-> PyStr(text)]),
                PyDict([type |-> PyStr("image_url"),
                        image_url |-> PyDict([url |->
                            PyStr("data:application/pdf;base64," \o pdf_base64)])])
            >>)] >>

\* ------------------------------------------------------------ transport outcomes
\* what the awaited client.post produces: an exception of the transport, a
\* timeout of the client, or an HTTP response with a status and a body
TransportError == [kind |-> "error"]
TransportTimeout == [kind |-> "timeout"]
InvalidJson == [json |-> FALSE]
JsonBody(data) == [json |-> TRUE, data |-> data]
Http(status, body) == [kind |-> "http", status |-> status, body |-> body]

\* raise_for_status left out: no status raises
NeverRaisesForStatus(status) == FALSE

\* response.raise_for_status(): raises unless the status is a 2xx
RaisesForStatus(status) == status < 200 \/ status > 299

\* a message whose content is empty or null treated like a missing choice
ReadBodyRequiresContent(data) ==
    IF data.t # "dict" \/ "choices" \notin DOMAIN data.d THEN Ok(PyNone)
    ELSE IF ~Truthy(data.d["choices"]) THEN Ok(PyNone)
    ELSE LET first == data.d["choices"].l[1]
         IN  IF "message" \notin DOMAIN first.d THEN Raise("KeyError")
             ELSE LET message == first.d["message"]
                  IN  IF ~Truthy(Get(message.d, "content", PyNone)) THEN Ok(PyNone)
                      ELSE Ok(PyDict(
                          [content |-> Get(message.d, "content", PyNone),
                           reasoning_details |->
                               Get(message.d, "reasoning_details", PyNone)]))

\* lines 89-99: the value returned from the parsed body, or the exception raised
ReadBody(data) ==
    IF data.t = "None" THEN Raise("TypeError")
    ELSE IF data.t = "list" /\ PyStr("choices") \notin {data.l[k] : k \in 1..Len(data.l)}
    THEN Ok(PyNone)
    ELSE IF data.t = "dict" /\ "choices" \notin DOMAIN data.d THEN Ok(PyNone)
    ELSE IF data.t # "dict" THEN Raise("TypeError")
    ELSE IF ~Truthy(data.d["choices"]) THEN Ok(PyNone)
    ELSE LET choices == data.d["choices"]
         IN  IF choices.t # "list" THEN Raise("TypeError")
             ELSE LET first == choices.l[1]
                  IN  IF first.t # "dict" THEN Raise("TypeError")
                      ELSE IF "message" \notin DOMAIN first.d THEN Raise("KeyError")
                      ELSE LET message == first.d["message"]
                           IN  IF message.t # "dict" THEN Raise("AttributeError")
                               ELSE Ok(PyDict(
                                   [content |-> Get(message.d, "content", PyNone),
                                    reasoning_details |->
                                        Get(message.d, "reasoning_details", PyNone)]))

\* lines 77-99, the body of the try block, given what the transport produced
TryBody(r) ==
    IF r.kind = "error" THEN Raise("TransportError")
    ELSE IF r.kind = "timeout" THEN Raise("TimeoutException")
    ELSE IF RaisesForStatus(r.status) THEN Raise("HTTPStatusError")
    ELSE IF ~r.body.json THEN Raise("JSONDecodeError")
    ELSE ReadBody(r.body.data)

\* lines 76-103: try ... except Exception: return None
QueryModelResult(r) ==
    LET body == TryBody(r)
    IN  IF body.ok THEN body.val ELSE PyNone

\* ------------------------------------------------------------ inputs
\* target identifiers are opaque: the code only uses them as dict keys, so the
\* lists are enumerated up to renaming, the k-th new identifier being IdName[k]
IdName == <<"m1", "m2", "m3", "m4", "m5">>

\* the number of distinct identifiers among the first k elements of f
Seen(f, k) == Cardinality({f[j] : j \in 1..k})

TargetShapes(len) ==
    {f \in [1..len -> 1..len] : \A k \in 1..len : f[k] <= Seen(f, k - 1) + 1}

\* every list of at most n target identifiers, repeats included
TargetLists(n) ==
    UNION {{[k \in 1..len |-> IdName[f[k]]] : f \in TargetShapes(len)} : len \in 0..n}

\* attachments as callers supply them: {"type": ..., "base64": ...}
PngAttachment == PyDict([type |-> PyStr("image/png"), base64 |-> PyStr("iVBORw==")])
UntypedAttachment == PyDict([base64 |-> PyStr("JVBERi0=")])

\* a content-part list composed beforehand instead of attachments
ComposedContent ==
    PyList(<<TextPart(PyStr("hi")), MediaPart(UntypedAttachment)>>)

Absent == [t |-> "absent"]
Roles == {Absent, PyStr("user")}
Contents == {Absent, PyStr(""), PyStr("hi")}
AttachmentLists ==
    {Absent, PyNone, PyList(<<>>), PyList(<<PngAttachment>>),
     PyList(<<UntypedAttachment, PngAttachment>>), PyList(<<PyStr("a.pdf")>>)}

\* the dict holding the keys whose value is given
MkMsg(role, content, attachments) ==
    LET given == [role |-> role, content |-> content, attachments |-> attachments]
    IN  [k \in {x \in DOMAIN given : given[x] # Absent} |-> given[k]]

MsgUniverse ==
    {MkMsg(r, c, a) : r \in Roles, c \in Contents, a \in AttachmentLists}
    \cup {MkMsg(PyStr("user"), ComposedContent, Absent)}

\* every sequence of at most n messages
MessageLists(n) == UNION {[1..k -> MsgUniverse] : k \in 0..n}

\* the message sequences the fan-out is exercised with: plain text, a
\* document with text, and a message without its role
DispatchMessages ==
    { <<MkMsg(PyStr("user"), PyStr("hi"), Absent)>>,
      <<MkMsg(PyStr("user"), PyStr("hi"), PyList(<<UntypedAttachment>>))>>,
      <<MkMsg(Absent, PyStr("hi"), Absent)>> }

\* the arguments create_message_with_pdf is called with
PdfBytes == {0, 37, 80, 255}
ByteSeqs(n) == UNION {[1..k -> PdfBytes] : k \in 0..n}
UserTexts ==
    { <<>>, <<"\t">>, <<" ", "\n">>, <<"h", "i">>, <<" ", "h", "i", " ">> }
Filenames == {"a.pdf", "b.pdf"}
PdfCalls(n) ==
    [user_message : UserTexts, pdf_bytes : ByteSeqs(n), filename : Filenames,
     pdf_base64 : {Unset}]

\* a well-formed choice message
ChoiceBody(message) ==
    JsonBody(PyDict([choices |-> PyList(<<PyDict([message |-> PyDict(message)])>>)]))

\* the message objects of well-formed responses: empty text, null text with
\* reasoning details, text with reasoning details
ChoiceMessages ==
    { [content |-> PyStr("")],
      [content |-> PyNone, reasoning_details |-> PyStr("r")],
      [content |-> PyStr("hi"), reasoning_details |-> PyStr("r")] }

\* what the transport may answer to a request it does answer
Responses ==
    { TransportError,
      Http(500, ChoiceBody([content |-> PyStr("hi")])),
      Http(200, InvalidJson),
      Http(200, JsonBody(PyDict([error |-> PyStr("overloaded")]))),
      Http(200, JsonBody(PyDict([choices |-> PyList(<<>>)]))),
      Http(200, JsonBody(PyDict([choices |-> PyList(<<PyDict([index |-> PyStr("0")])>>)]))) }
    \cup {Http(200, ChoiceBody(m)) : m \in ChoiceMessages}

\* ------------------------------------------------------------ state
VARIABLES
    models,     \* the target list passed to query_models_parallel
    messages,   \* the message sequence passed to it
    dpc,        \* where query_models_parallel is: caller, call, gather, returned, raised
    st,         \* per invocation: created, pending, inflight, hung, done, raised
    payload,    \* per invocation: the payload handed to client.post
    sent,       \* per invocation: the number of client.post calls made
    resp,       \* per invocation: what the transport produced
    outcome,    \* per invocation: the value query_model returned
    result,     \* the dict query_models_parallel returned
    exc,        \* the exception query_models_parallel raised
    pdf,        \* the frame of create_message_with_pdf when the caller uses it
    other       \* the frame of a second, concurrent query_models_parallel call

vars == <<models, messages, dpc, st, payload, sent, resp, outcome, result, exc, pdf, other>>

Tasks == 1..Len(models)

InitCall ==
    /\ dpc = "call"
    /\ st = [i \in Tasks |-> "created"]
    /\ payload = [i \in Tasks |-> Unset]
    /\ sent = [i \in Tasks |-> 0]
    /\ resp = [i \in Tasks |-> Unset]
    /\ outcome = [i \in Tasks |-> Unset]
    /\ result = Unset
    /\ exc = Unset
    /\ pdf = Unset
    /\ other = Unset

Init ==
    /\ models \in TargetLists(MaxTargets)
    /\ messages \in DispatchMessages
    /\ InitCall

\* termination does not depend on what the messages hold beyond whether the
\* payload can be built: one sequence of each kind
FairMessages ==
    { <<MkMsg(PyStr("user"), PyStr("hi"), Absent)>>,
      <<MkMsg(Absent, PyStr("hi"), Absent)>> }

InitFair ==
    /\ models \in TargetLists(MaxTargets)
    /\ messages \in FairMessages
    /\ InitCall

\* the payload construction alone, over every message sequence
InitCompose ==
    /\ models \in {<<IdName[1]>>}
    /\ messages \in MessageLists(MaxMsgs)
    /\ InitCall

\* the caller composes the messages with create_message_with_pdf first
InitPdf ==
    /\ models \in {<<IdName[1]>>}
    /\ messages = Unset
    /\ pdf \in PdfCalls(MaxBytes)
    /\ other = Unset
    /\ dpc = "caller"
    /\ st = [i \in Tasks |-> "created"]
    /\ payload = [i \in Tasks |-> Unset]
    /\ sent = [i \in Tasks |-> 0]
    /\ resp = [i \in Tasks |-> Unset]
    /\ outcome = [i \in Tasks |-> Unset]
    /\ result = Unset
    /\ exc = Unset

\* ------------------------------------------------------------ create_message_with_pdf
\* lines 35-57: the document is encoded, the message list is built and handed
\* to the caller, who passes it on as messages
CreatePdfMessage ==
    /\ dpc = "caller"
    /\ pdf # Unset
    /\ pdf' = [pdf EXCEPT !.pdf_base64 = B64Encode(pdf.pdf_bytes)]
    /\ messages' = CreateMessageWithPdf(pdf.user_message, pdf.pdf_bytes, pdf.filename)
    /\ dpc' = "call"
    /\ UNCHANGED <<other, models, st, payload, sent, resp, outcome, result, exc>>

\* ------------------------------------------------------------ query_models_parallel
\* lines 123-126: one coroutine per list element, all handed to asyncio.gather,
\* which schedules every one of them as a task before the caller suspends
Gather ==
    /\ dpc = "call"
    /\ dpc' = "gather"
    /\ st' = [i \in Tasks |-> "pending"]
    /\ UNCHANGED <<pdf, other, models, messages, payload, sent, resp, outcome, result, exc>>

\* the invocations awaited one after the other instead of gathered
RunnableSequential(i) ==
    /\ dpc = "gather"
    /\ st[i] = "pending"
    /\ \A j \in 1..(i - 1) : st[j] \in {"done", "raised"}

\* the event loop runs the scheduled tasks in the order gather created them;
\* a task's first step does not wait for any other task
Runnable(i) ==
    /\ dpc = "gather"
    /\ st[i] = "pending"
    /\ \A j \in 1..(i - 1) : st[j] # "pending"

\* the loop polls for I/O only once no scheduled step is left to run
LoopIdle == \A j \in Tasks : ~Runnable(j)

\* the client built with timeout=None
NoTimeout == FALSE

\* the client is built with timeout=timeout (120 s unless the caller says otherwise)
HasTimeout == TRUE

\* the attachments popped from the caller's messages while the payload is built
TaskStartPopsAttachments(i) ==
    /\ Runnable(i)
    /\ LET built == BuildPayload(models[i], messages)
       IN  \/ /\ ~built.ok
              /\ st' = [st EXCEPT ![i] = "raised"]
              /\ outcome' = [outcome EXCEPT ![i] = built]
              /\ UNCHANGED <<payload, sent>>
           \/ /\ built.ok
              /\ \E s \in {"inflight", "hung"} : st' = [st EXCEPT ![i] = s]
              /\ payload' = [payload EXCEPT ![i] = built.val]
              /\ sent' = [sent EXCEPT ![i] = @ + 1]
              /\ UNCHANGED outcome
    /\ messages' = [k \in 1..Len(messages) |->
                       [key \in DOMAIN messages[k] \ {"attachments"} |-> messages[k][key]]]
    /\ UNCHANGED <<pdf, other, models, dpc, resp, result, exc>>

\* lines 24-82: the first step of a query_model task runs up to the awaited
\* client.post: the payload is built outside the try block, so an exception
\* there ends the task; otherwise one request is issued and the task suspends
\* on a transport that will answer or on one that never does
TaskStart(i) ==
    /\ Runnable(i)
    /\ LET built == BuildPayload(models[i], messages)
       IN  \/ /\ ~built.ok
              /\ st' = [st EXCEPT ![i] = "raised"]
              /\ outcome' = [outcome EXCEPT ![i] = built]
              /\ UNCHANGED <<payload, sent>>
           \/ /\ built.ok
              /\ \E s \in {"inflight", "hung"} : st' = [st EXCEPT ![i] = s]
              /\ payload' = [payload EXCEPT ![i] = built.val]
              /\ sent' = [sent EXCEPT ![i] = @ + 1]
              /\ UNCHANGED outcome
    /\ UNCHANGED <<pdf, other, models, messages, dpc, resp, result, exc>>

\* a failed call sent once more before giving up
OnResponseRetry(i, r) ==
    IF r.kind \in {"error", "timeout"} /\ sent[i] < 2
    THEN /\ sent' = [sent EXCEPT ![i] = @ + 1]
         /\ st' = [st EXCEPT ![i] = "inflight"]
         /\ UNCHANGED <<pdf, other, models, messages, dpc, payload, resp, outcome, result, exc>>
    ELSE /\ resp' = [resp EXCEPT ![i] = r]
         /\ outcome' = [outcome EXCEPT ![i] = QueryModelResult(r)]
         /\ st' = [st EXCEPT ![i] = "done"]
         /\ UNCHANGED <<pdf, other, models, messages, dpc, payload, sent, result, exc>>

\* lines 78-103: what happens to invocation i once the awaited client.post has
\* produced r: the rest of the try block runs and the task ends with its value
OnResponse(i, r) ==
    /\ resp' = [resp EXCEPT ![i] = r]
    /\ outcome' = [outcome EXCEPT ![i] = QueryModelResult(r)]
    /\ st' = [st EXCEPT ![i] = "done"]
    /\ UNCHANGED <<pdf, other, models, messages, dpc, payload, sent, result, exc>>

\* the transport answers invocation i
Deliver(i) ==
    /\ dpc = "gather"
    /\ LoopIdle
    /\ st[i] = "inflight"
    /\ \E r \in Responses : OnResponse(i, r)

\* the transport never answers invocation i: the client's own timeout expires
\* and client.post raises
Timeout(i) ==
    /\ dpc = "gather"
    /\ LoopIdle
    /\ st[i] = "hung"
    /\ HasTimeout
    /\ OnResponse(i, TransportTimeout)

\* a wait that needs at least one task to wait for
AllDoneSomeTask == Tasks # {} /\ \A i \in Tasks : st[i] = "done"

\* waiting for the first completed task only
AnyDone == \E i \in Tasks : st[i] = "done"

\* gather has a result once every task has returned
AllDone == \A i \in Tasks : st[i] = "done"

\* an earlier pair with the same key is kept
ZipDictFirstWins(ms, responses) ==
    [m \in {ms[i] : i \in 1..Len(ms)} |->
        responses[CHOOSE i \in 1..Len(ms) :
            /\ ms[i] = m
            /\ \A j \in 1..Len(ms) : ms[j] = m => i <= j]]

\* only the targets that produced a response are kept
ZipDictDropFailed(ms, responses) ==
    [m \in {ms[i] : i \in {k \in 1..Len(ms) : responses[k] # PyNone}} |->
        responses[CHOOSE i \in 1..Len(ms) :
            /\ ms[i] = m
            /\ \A j \in 1..Len(ms) : ms[j] = m => j <= i]]

\* the responses paired with the targets in reverse
ZipDictReversed(ms, responses) ==
    [m \in {ms[i] : i \in 1..Len(ms)} |->
        responses[Len(ms) + 1 - CHOOSE i \in 1..Len(ms) :
            /\ ms[i] = m
            /\ \A j \in 1..Len(ms) : ms[j] = m => j <= i]]

\* line 129: {model: response for model, response in zip(models, responses)};
\* a later pair with the same key replaces the earlier one
ZipDict(ms, responses) ==
    [m \in {ms[i] : i \in 1..Len(ms)} |->
        responses[CHOOSE i \in 1..Len(ms) :
            /\ ms[i] = m
            /\ \A j \in 1..Len(ms) : ms[j] = m => j <= i]]

\* lines 126-129: gather delivers the list of results in task order
Return ==
    /\ dpc = "gather"
    /\ AllDone
    /\ dpc' = "returned"
    /\ result' = ZipDict(models, outcome)
    /\ UNCHANGED <<pdf, other, models, messages, st, payload, sent, resp, outcome, exc>>

\* line 126: gather (return_exceptions left False) re-raises the first
\* exception a task raised into the awaiting caller
Propagate ==
    /\ dpc = "gather"
    /\ LoopIdle
    /\ \E i \in Tasks :
        /\ st[i] = "raised"
        /\ \A j \in 1..(i - 1) : st[j] # "raised"
        /\ exc' = outcome[i].exc
    /\ dpc' = "raised"
    /\ UNCHANGED <<pdf, other, models, messages, st, payload, sent, resp, outcome, result>>

Next ==
    \/ Gather
    \/ \E i \in Tasks : TaskStart(i)
    \/ \E i \in Tasks : Deliver(i)
    \/ \E i \in Tasks : Timeout(i)
    \/ Return
    \/ Propagate

Spec == Init /\ [][Next]_vars

\* ------------------------------------------------------------ a second call
\* A second query_models_parallel call running on the same event loop.  Its
\* frame (its arguments, tasks, responses and result are locals of the call)
\* is the record other; its steps are those of the first call on that frame.
OtherTasks == 1..Len(other.models)

\* what the transport answers to the second call's requests
OtherResponses ==
    { TransportError,
      Http(200, ChoiceBody([content |-> PyStr("")])),
      Http(200, ChoiceBody([content |-> PyStr("hi"), reasoning_details |-> PyStr("r")])) }

\* the frame of a call that has not started yet
NewFrame(ms, msgs) ==
    [models |-> ms, messages |-> msgs, dpc |-> "call",
     st |-> [i \in 1..Len(ms) |-> "created"],
     payload |-> [i \in 1..Len(ms) |-> Unset],
     sent |-> [i \in 1..Len(ms) |-> 0],
     resp |-> [i \in 1..Len(ms) |-> Unset],
     outcome |-> [i \in 1..Len(ms) |-> Unset],
     result |-> Unset, exc |-> Unset]

\* two calls with overlapping targets; each with messages of its own
InitPair ==
    /\ models \in {<<IdName[1]>>, <<IdName[1], IdName[2]>>}
    /\ messages \in FairMessages
    /\ dpc = "call"
    /\ st = [i \in Tasks |-> "created"]
    /\ payload = [i \in Tasks |-> Unset]
    /\ sent = [i \in Tasks |-> 0]
    /\ resp = [i \in Tasks |-> Unset]
    /\ outcome = [i \in Tasks |-> Unset]
    /\ result = Unset
    /\ exc = Unset
    /\ pdf = Unset
    /\ \E ms \in {<<IdName[1]>>, <<IdName[2], IdName[1]>>} :
       \E msgs \in { <<MkMsg(PyStr("user"), PyStr(""), PyList(<<PngAttachment>>))>>,
                      <<MkMsg(PyStr("user"), Absent, Absent)>> } :
          other = NewFrame(ms, msgs)

OtherGather ==
    /\ other # Unset
    /\ other.dpc = "call"
    /\ other' = [other EXCEPT !.dpc = "gather",
                              !.st = [i \in OtherTasks |-> "pending"]]
    /\ UNCHANGED <<pdf, models, messages, dpc, st, payload, sent, resp, outcome, result, exc>>

OtherRunnable(i) ==
    /\ other.dpc = "gather"
    /\ other.st[i] = "pending"
    /\ \A j \in 1..(i - 1) : other.st[j] # "pending"

OtherLoopIdle == \A j \in OtherTasks : ~OtherRunnable(j)

OtherStart(i) ==
    /\ other # Unset
    /\ i \in OtherTasks
    /\ OtherRunnable(i)
    /\ LET built == BuildPayload(other.models[i], other.messages)
       IN  IF ~built.ok
           THEN other' = [other EXCEPT !.st[i] = "raised", !.outcome[i] = built]
           ELSE \E s \in {"inflight", "hung"} :
                   other' = [other EXCEPT !.st[i] = s,
                                          !.payload[i] = built.val,
                                          !.sent[i] = @ + 1]
    /\ UNCHANGED <<pdf, models, messages, dpc, st, payload, sent, resp, outcome, result, exc>>

\* the tasks' results kept in one table shared by all calls
OtherOnResponseShared(i, r) ==
    /\ other' = [other EXCEPT !.resp[i] = r,
                              !.outcome[i] = QueryModelResult(r),
                              !.st[i] = "done"]
    /\ outcome' = [k \in Tasks |-> IF k = i THEN QueryModelResult(r) ELSE outcome[k]]
    /\ UNCHANGED <<pdf, models, messages, dpc, st, payload, sent, resp, result, exc>>

OtherOnResponse(i, r) ==
    /\ other' = [other EXCEPT !.resp[i] = r,
                              !.outcome[i] = QueryModelResult(r),
                              !.st[i] = "done"]
    /\ UNCHANGED <<pdf, models, messages, dpc, st, payload, sent, resp, outcome, result, exc>>

OtherDeliver(i) ==
    /\ other # Unset
    /\ i \in OtherTasks
    /\ other.dpc = "gather"
    /\ OtherLoopIdle
    /\ other.st[i] = "inflight"
    /\ \E r \in OtherResponses : OtherOnResponse(i, r)

OtherTimeout(i) ==
    /\ other # Unset
    /\ i \in OtherTasks
    /\ other.dpc = "gather"
    /\ OtherLoopIdle
    /\ other.st[i] = "hung"
    /\ HasTimeout
    /\ OtherOnResponse(i, TransportTimeout)

OtherReturn ==
    /\ other # Unset
    /\ other.dpc = "gather"
    /\ \A i \in OtherTasks : other.st[i] = "done"
    /\ other' = [other EXCEPT !.dpc = "returned",
                              !.result = ZipDict(other.models, other.outcome)]
    /\ UNCHANGED <<pdf, models, messages, dpc, st, payload, sent, resp, outcome, result, exc>>

OtherPropagate ==
    /\ other # Unset
    /\ other.dpc = "gather"
    /\ OtherLoopIdle
    /\ \E i \in OtherTasks :
        /\ other.st[i] = "raised"
        /\ \A j \in 1..(i - 1) : other.st[j] # "raised"
        /\ other' = [other EXCEPT !.dpc = "raised", !.exc = other.outcome[i].exc]
    /\ UNCHANGED <<pdf, models, messages, dpc, st, payload, sent, resp, outcome, result, exc>>

NextPair ==
    \/ Next
    \/ OtherGather
    \/ \E i \in 1..2 : OtherStart(i)
    \/ \E i \in 1..2 : OtherDeliver(i)
    \/ \E i \in 1..2 : OtherTimeout(i)
    \/ OtherReturn
    \/ OtherPropagate

SpecPair == InitPair /\ [][NextPair]_vars

NextCompose ==
    \/ CreatePdfMessage
    \/ Gather
    \/ \E i \in Tasks : TaskStart(i)

SpecCompose == (InitCompose \/ InitPdf) /\ [][NextCompose]_vars

\* the loop keeps running whatever is ready, the transport answers the
\* requests it does answer, and the client's timer fires
FairSpec == InitFair /\ [][Next]_vars /\ WF_vars(Next)

\* ------------------------------------------------------------ properties
Targets == {models[i] : i \in Tasks}
Distinct == \A i, j \in Tasks : models[i] = models[j] => i = j
DispatchOver == dpc \in {"returned", "raised"}

\* the Success value a well-formed response carrying message m stands for
Success(m) ==
    PyDict([content |-> IF "content" \in DOMAIN m THEN m.content ELSE PyNone,
            reasoning_details |->
                IF "reasoning_details" \in DOMAIN m THEN m.reasoning_details ELSE PyNone])

\* the transport call of an invocation failed: an error, a timeout, a non-2xx status
CallFailed(r) ==
    \/ r.kind \in {"error", "timeout"}
    \/ r.kind = "http" /\ (r.status < 200 \/ r.status >= 300)

\* C1: the mapping query_models_parallel returns has exactly the requested
\* target identifiers as its keys, whatever each invocation's outcome was.
C1_KeysAreTargets == dpc = "returned" => DOMAIN result = Targets

C1_Witness ==
    /\ dpc = "returned"
    /\ ~Distinct
    /\ \E i, j \in Tasks : outcome[i] = PyNone /\ outcome[j] # PyNone

\* C2: transport failures of some targets never make the dispatch fail as a
\* whole (it raises only when no request was ever issued), and with distinct
\* targets each entry of the returned mapping is None for a target whose call
\* failed and the Success payload of the target's own response otherwise.
C2_FailuresIsolated ==
    /\ dpc = "raised" => \A i \in Tasks : sent[i] = 0 /\ resp[i] = Unset
    /\ (dpc = "returned" /\ Distinct) =>
          \A i \in Tasks :
             /\ CallFailed(resp[i]) => result[models[i]] = PyNone
             /\ \A m \in ChoiceMessages :
                   resp[i] = Http(200, ChoiceBody(m)) => result[models[i]] = Success(m)

C2_Witness ==
    /\ dpc = "returned"
    /\ Distinct
    /\ Len(models) = 3
    /\ resp[1] = TransportError
    /\ result[models[1]] = PyNone
    /\ resp[2] = Http(200, ChoiceBody([content |-> PyStr("")]))
    /\ resp[3] = Http(200, ChoiceBody([content |-> PyStr("hi"), reasoning_details |-> PyStr("r")]))
    /\ result[models[2]] # result[models[3]]

\* C3: query_model never raises: every error, also one met while the payload
\* is built from the messages, ends the invocation with None.
C3_NeverRaises == \A i \in Tasks : st[i] # "raised"

\* the transport outcomes the specification lists as failures
FailureKind(r) ==
    \/ r.kind \in {"error", "timeout"}
    \/ /\ r.kind = "http"
       /\ \/ r.status < 200 \/ r.status >= 300
          \/ ~r.body.json
          \/ /\ r.body.json
             /\ r.body.data.t = "dict"
             /\ \/ "choices" \notin DOMAIN r.body.data.d
                \/ r.body.data.d["choices"] = PyList(<<>>)
                \/ /\ r.body.data.d["choices"].t = "list"
                   /\ Len(r.body.data.d["choices"].l) > 0
                   /\ r.body.data.d["choices"].l[1].t = "dict"
                   /\ "message" \notin DOMAIN r.body.data.d["choices"].l[1].d

\* C4: a transport error or timeout, a non-2xx status, a body that is not
\* JSON, a missing or empty choice list and a first choice without a message
\* all end the invocation with the same value None, and none is raised.
C4_UniformFailure ==
    \A i \in Tasks :
        (resp[i] # Unset /\ FailureKind(resp[i])) =>
            st[i] = "done" /\ outcome[i] = PyNone

C4_Witness ==
    /\ Len(models) = 3
    /\ resp[1] = TransportTimeout
    /\ resp[2] = Http(500, ChoiceBody([content |-> PyStr("hi")]))
    /\ resp[3] = Http(200, JsonBody(PyDict([choices |-> PyList(<<PyDict([index |-> PyStr("0")])>>)])))
    /\ \A i \in Tasks : outcome[i] = PyNone

\* C5: once query_models_parallel is over no invocation is still pending or in
\* flight, and the mapping it returns holds a terminal outcome for every target.
C5_NoEarlyReturn ==
    /\ DispatchOver => \A i \in Tasks : st[i] \in {"done", "raised"}
    /\ dpc = "returned" =>
          /\ \A i \in Tasks : outcome[i] # Unset /\ resp[i] # Unset
          /\ \A m \in Targets : m \in DOMAIN result /\ result[m] # Unset

C5_Witness ==
    /\ dpc = "returned"
    /\ Len(models) >= 2
    /\ \E i, j \in Tasks : resp[i] = TransportTimeout /\ resp[j] \notin {TransportTimeout, Unset}

\* C6: every invocation's request is issued before any invocation has reached
\* its outcome, and an invocation suspended on the transport never keeps the
\* next one from starting.
C6_ConcurrentStart ==
    /\ (\E i \in Tasks : st[i] = "done") => \A j \in Tasks : sent[j] >= 1
    /\ \A i \in Tasks :
          (/\ dpc = "gather"
           /\ st[i] = "pending"
           /\ \A j \in 1..(i - 1) : st[j] \in {"inflight", "hung"})
          => ENABLED TaskStart(i)

C6_Witness ==
    /\ Len(models) = 3
    /\ \A i \in Tasks : st[i] \in {"inflight", "hung"} /\ sent[i] = 1 /\ resp[i] = Unset

\* C7: an invocation whose transport never answers is ended by its own
\* timeout with None, the step leaves every sibling as it was, and the
\* dispatch always comes to an end.
C7_TimeoutTerminates ==
    /\ <>DispatchOver
    /\ [][\A i \in Tasks :
            (st[i] = "hung" /\ st'[i] # "hung") =>
                /\ st'[i] = "done"
                /\ outcome'[i] = PyNone
                /\ \A j \in Tasks \ {i} :
                      st'[j] = st[j] /\ outcome'[j] = outcome[j] /\ resp'[j] = resp[j]]_vars

C7_Witness ==
    /\ dpc = "returned"
    /\ \E i, j \in Tasks :
          /\ resp[i] = TransportTimeout
          /\ result[models[i]] = PyNone
          /\ models[j] # models[i]
          /\ result[models[j]] = Success([content |-> PyStr("hi"), reasoning_details |-> PyStr("r")])

\* the response is a 200 with a JSON object whose choice list is absent or empty
NoChoices(r) ==
    /\ r.kind = "http"
    /\ r.status = 200
    /\ r.body.json
    /\ r.body.data.t = "dict"
    /\ \/ "choices" \notin DOMAIN r.body.data.d
       \/ r.body.data.d["choices"] = PyList(<<>>)

\* C8: an absent or empty choice list gives None, while a well-formed response
\* whose message content is the empty string or null gives the dict carrying
\* that content and the message's reasoning_details (None when absent).
C8_EmptyContentIsSuccess ==
    \A i \in Tasks :
        st[i] = "done" =>
            /\ NoChoices(resp[i]) => outcome[i] = PyNone
            /\ \A m \in ChoiceMessages :
                  (resp[i] = Http(200, ChoiceBody(m)) /\ m.content \in {PyStr(""), PyNone}) =>
                      /\ outcome[i] # PyNone
                      /\ outcome[i] = Success(m)
                      /\ outcome[i].d["content"] = m.content

C8_Witness ==
    /\ Len(models) = 3
    /\ resp[1] = Http(200, JsonBody(PyDict([choices |-> PyList(<<>>)])))
    /\ outcome[1] = PyNone
    /\ outcome[2] = PyDict([content |-> PyStr(""), reasoning_details |-> PyNone])
    /\ outcome[3] = PyDict([content |-> PyNone, reasoning_details |-> PyStr("r")])

\* C9: an invocation calls the transport exactly once: never more than one
\* request, and exactly one by the time it has suspended or ended with a value.
C9_OneRequest ==
    \A i \in Tasks :
        /\ sent[i] <= 1
        /\ st[i] \in {"inflight", "hung", "done"} => sent[i] = 1

C9_Witness ==
    /\ Len(models) >= 2
    /\ \E i, j \in Tasks :
          /\ st[i] = "done" /\ resp[i] = TransportError /\ sent[i] = 1
          /\ st[j] = "done" /\ resp[j] = TransportTimeout /\ sent[j] = 1

\* the message has no attachments: the key is absent or holds the empty list
NoAttachments(msg) ==
    "attachments" \notin DOMAIN msg \/ msg["attachments"] = PyList(<<>>)

\* C10: for a message without attachments the payload carries the message's
\* content value itself, not a content-part list built around it.
C10_PlainContentUnchanged ==
    \A i \in Tasks :
        payload[i] # Unset =>
            /\ Len(payload[i].messages) = Len(messages)
            /\ \A k \in 1..Len(messages) :
                  NoAttachments(messages[k]) =>
                      payload[i].messages[k].content = messages[k]["content"]

C10_Witness ==
    /\ dpc # "caller"
    /\ Len(messages) = 2
    /\ \E i \in Tasks : payload[i] # Unset
    /\ "attachments" \notin DOMAIN messages[1]
    /\ messages[1]["content"] = ComposedContent
    /\ "attachments" \in DOMAIN messages[2]
    /\ messages[2]["attachments"] = PyList(<<>>)
    /\ messages[2]["content"] = PyStr("")

\* the message carries one or more attachments
HasAttachments(msg) ==
    /\ "attachments" \in DOMAIN msg
    /\ msg["attachments"].t = "list"
    /\ Len(msg["attachments"].l) > 0

\* the data URI of an attachment: its declared type, or application/pdf
UriOf(att) ==
    "data:" \o (IF "type" \in DOMAIN att.d THEN att.d["type"].s ELSE "application/pdf")
            \o ";base64,"
            \o (IF "base64" \in DOMAIN att.d THEN att.d["base64"].s ELSE "")

IsTextPart(part) == part.t = "dict" /\ part.d["type"] = PyStr("text")
IsMediaPart(part) == part.t = "dict" /\ part.d["type"] = PyStr("image_url")

\* C11: for a message with attachments the payload's content is a list whose
\* media parts are one per attachment in input order, preceded by one text
\* part exactly when the message text is non-empty.
C11_PartsPerAttachment ==
    \A i \in Tasks :
        payload[i] # Unset =>
            \A k \in 1..Len(messages) :
                HasAttachments(messages[k]) =>
                    LET atts == messages[k]["attachments"].l
                        text == messages[k]["content"]
                        parts == payload[i].messages[k].content
                        lead == IF text # PyStr("") THEN 1 ELSE 0
                    IN  /\ parts.t = "list"
                        /\ Len(parts.l) = Len(atts) + lead
                        /\ lead = 1 => IsTextPart(parts.l[1]) /\ parts.l[1].d["text"] = text
                        /\ \A j \in 1..Len(atts) :
                              /\ IsMediaPart(parts.l[lead + j])
                              /\ parts.l[lead + j].d["image_url"].d["url"] = PyStr(UriOf(atts[j]))

C11_Witness ==
    /\ dpc # "caller"
    /\ Len(messages) = 2
    /\ messages[1] = MkMsg(PyStr("user"), PyStr(""), PyList(<<UntypedAttachment, PngAttachment>>))
    /\ messages[2] = MkMsg(PyStr("user"), PyStr("hi"), PyList(<<PngAttachment>>))
    /\ \E i \in Tasks : payload[i] # Unset /\ Len(payload[i].messages[1].content.l) = 2
                                           /\ Len(payload[i].messages[2].content.l) = 2

\* the last position of identifier m in the target list
LastOf(m) == CHOOSE i \in Tasks : models[i] = m /\ \A j \in Tasks : models[j] = m => j <= i

\* C15: with an identifier repeated in the target list one invocation is
\* started per occurrence, the returned mapping has one entry per distinct
\* identifier, and the entry holds the outcome of the last occurrence in list
\* order, whatever the order of completion.
C15_LastOccurrenceWins ==
    dpc = "returned" =>
        /\ \A i \in Tasks : sent[i] = 1 /\ payload[i].model = models[i]
        /\ Cardinality(DOMAIN result) = Cardinality(Targets)
        /\ \A m \in Targets : result[m] = outcome[LastOf(m)]

C15_Witness ==
    /\ dpc = "returned"
    /\ Len(models) = 3
    /\ models[1] = models[3]
    /\ models[2] # models[1]
    /\ outcome[1] = Success([content |-> PyStr("")])
    /\ outcome[3] = PyNone
    /\ result[models[1]] = PyNone
    /\ Cardinality(DOMAIN result) = 2

\* C17: query_model leaves the caller's messages as they were, so within one
\* dispatch every payload carries the same messages and the payloads differ
\* only in their model field.
C17_MessagesShared ==
    /\ [](\A i, j \in Tasks :
            (payload[i] # Unset /\ payload[j] # Unset) =>
                /\ DOMAIN payload[i] = {"model", "messages"}
                /\ payload[i].model = models[i]
                /\ payload[i].messages = payload[j].messages)
    /\ [][messages' = messages]_vars

C17_Witness ==
    /\ Len(models) = 3
    /\ \A i \in Tasks : payload[i] # Unset
    /\ payload[1].model # payload[2].model
    /\ payload[1].messages = payload[3].messages
    /\ \E k \in 1..Len(messages) : HasAttachments(messages[k])

\* C18: with an empty target list the dispatch issues no request, does not
\* wait for anything and returns the empty mapping.
C18_EmptyTargets ==
    Len(models) = 0 =>
        /\ dpc # "raised"
        /\ dpc = "gather" => ENABLED Return
        /\ dpc = "returned" => DOMAIN result = {}
        /\ DOMAIN sent = {} /\ DOMAIN payload = {}

C18_Witness == Len(models) = 0 /\ dpc = "returned" /\ DOMAIN result = {}

\* the messages were composed by create_message_with_pdf
FromPdf == pdf # Unset /\ dpc # "caller"

\* every character of the text is whitespace
Blank(cs) == \A k \in 1..Len(cs) : cs[k] \in {" ", "\t", "\n", "\r", "\f"}

\* one user message whose first part is the text part holding text
OneUserMessage(text) ==
    /\ Len(messages) = 1
    /\ messages[1].role = PyStr("user")
    /\ messages[1].content.t = "list"
    /\ messages[1].content.l[1] = PyDict([type |-> PyStr("text"), text |-> PyStr(text)])

\* C12 as stated: create_message_with_pdf returns one user message whose text
\* is "Please analyze this document." for a blank user text and the user text
\* verbatim otherwise.
C12_DefaultPromptAsStated ==
    FromPdf =>
        OneUserMessage(IF Blank(pdf.user_message) THEN "Please analyze this document."
                       ELSE Join(pdf.user_message))

\* C12 amended: create_message_with_pdf returns one user message whose text is
\* "Please analyze this PDF document." for a blank or whitespace-only user
\* text and the user text verbatim, untrimmed, otherwise.
C12_DefaultPrompt ==
    FromPdf =>
        OneUserMessage(IF Blank(pdf.user_message) THEN "Please analyze this PDF document."
                       ELSE Join(pdf.user_message))

C12_Witness ==
    /\ FromPdf
    /\ pdf.user_message = <<" ", "\n">>
    /\ OneUserMessage("Please analyze this PDF document.")

\* the media part carrying the data URI uri
MediaShape(uri) ==
    PyDict([type |-> PyStr("image_url"), image_url |-> PyDict([url |-> PyStr(uri)])])

\* C13: the payload is an object with exactly the fields model (the target)
\* and messages, and every media part in it is
\* {type: image_url, image_url: {url: data:<mediaType>;base64,<data>}} with the
\* attachment's declared type, or application/pdf when it declares none, and
\* the attachment's base64 text.
C13_WireShape ==
    \A i \in Tasks :
        payload[i] # Unset =>
            /\ DOMAIN payload[i] = {"model", "messages"}
            /\ payload[i].model = models[i]
            /\ \A k \in 1..Len(messages) :
                  /\ DOMAIN payload[i].messages[k] = {"role", "content"}
                  /\ HasAttachments(messages[k]) =>
                        LET atts == messages[k]["attachments"].l
                            parts == payload[i].messages[k].content.l
                        IN  \A j \in 1..Len(atts) :
                                parts[Len(parts) - Len(atts) + j] = MediaShape(UriOf(atts[j]))
                  /\ FromPdf =>
                        payload[i].messages[k].content.l[2] =
                            MediaShape("data:application/pdf;base64," \o Join(pdf.pdf_base64))

C13_Witness ==
    /\ pdf = Unset
    /\ Len(messages) = 1
    /\ messages[1] = MkMsg(PyStr("user"), PyStr("hi"), PyList(<<UntypedAttachment, PngAttachment>>))
    /\ \E i \in Tasks :
          /\ payload[i] # Unset
          /\ payload[i].messages[1].content.l[2] = MediaShape("data:application/pdf;base64,JVBERi0=")
          /\ payload[i].messages[1].content.l[3] = MediaShape("data:image/png;base64,iVBORw==")

\* the position of character c in the base64 alphabet, from 0
B64Index(c) == IF c = "=" THEN 0 ELSE (CHOOSE k \in 1..64 : B64Alphabet[k] = c) - 1

\* standard base64 decoding of a padded text
B64Decode(cs) ==
    LET groups == Len(cs) \div 4
        pads == Cardinality({k \in 1..Len(cs) : cs[k] = "="})
        v(k) == B64Index(cs[k])
        byte(g, r) ==
            CASE r = 1 -> v(4 * g + 1) * 4 + (v(4 * g + 2) \div 16)
              [] r = 2 -> (v(4 * g + 2) % 16) * 16 + (v(4 * g + 3) \div 4)
              [] r = 3 -> (v(4 * g + 3) % 4) * 64 + v(4 * g + 4)
    IN  [k \in 1..(3 * groups - pads) |-> byte((k - 1) \div 3, ((k - 1) % 3) + 1)]

\* C14: encode_pdf_to_base64 succeeds for every byte sequence and decoding its
\* text gives the original bytes back.
C14_RoundTrip ==
    /\ (dpc = "caller" /\ pdf # Unset) => ENABLED CreatePdfMessage
    /\ (pdf # Unset /\ pdf.pdf_base64 # Unset) =>
          /\ Len(pdf.pdf_base64) % 4 = 0
          /\ \A k \in 1..Len(pdf.pdf_base64) :
                pdf.pdf_base64[k] \in {B64Alphabet[x] : x \in 1..64} \cup {"="}
          /\ B64Decode(pdf.pdf_base64) = pdf.pdf_bytes

C14_Witness ==
    /\ pdf # Unset
    /\ pdf.pdf_bytes = <<37, 80>>
    /\ pdf.pdf_base64 # Unset
    /\ Join(pdf.pdf_base64) = "JVA="
    /\ B64Decode(pdf.pdf_base64) = <<37, 80>>

\* the first call's own variables
callVars == <<models, messages, dpc, st, payload, sent, resp, outcome, result, exc>>

\* what a call with targets ms returns when it runs alone and the transport
\* produces rs for its invocations
Alone(ms, rs) ==
    [m \in {ms[i] : i \in 1..Len(ms)} |->
        QueryModelResult(rs[CHOOSE i \in 1..Len(ms) :
            ms[i] = m /\ \A j \in 1..Len(ms) : ms[j] = m => j <= i])]

\* C16: two concurrent query_models_parallel calls share nothing: a step of one
\* leaves the other's frame as it was, each call's payloads are built from its
\* own arguments, and each returns the mapping over its own targets that it
\* would return alone for the same transport responses.
C16_CallsIndependent ==
    /\ [](/\ dpc = "returned" => result = Alone(models, resp)
          /\ other.dpc = "returned" => other.result = Alone(other.models, other.resp)
          /\ \A i \in Tasks :
                payload[i] # Unset => Ok(payload[i]) = BuildPayload(models[i], messages)
          /\ \A i \in OtherTasks :
                other.payload[i] # Unset =>
                    Ok(other.payload[i]) = BuildPayload(other.models[i], other.messages))
    /\ [][/\ other' # other => callVars' = callVars
          /\ callVars' # callVars => other' = other]_vars

C16_Witness ==
    /\ dpc = "returned"
    /\ other.dpc = "returned"
    /\ models = <<IdName[1], IdName[2]>>
    /\ other.models = <<IdName[2], IdName[1]>>
    /\ result[IdName[1]] = PyNone
    /\ other.result[IdName[1]] = Success([content |-> PyStr("hi"), reasoning_details |-> PyStr("r")])
    /\ result[IdName[2]] = Success([content |-> PyStr("")])
    /\ other.result[IdName[2]] = PyNone

====
